---- MODULE Spec2Model ----
(***************************************************************************)
(* Database initialisation, cloud-sync fallback and conflict recovery of   *)
(* keep-account (src-tauri/src/db.rs, src-tauri/src/lib.rs).               *)
(*                                                                         *)
(* One initialisation run (init_db) is modelled step by step: every await  *)
(* point and every std::fs call of the recovery branch is one action.  The *)
(* environment (config file, files next to the database, HTTP endpoint,    *)
(* sync engine, SQL engine) is chosen nondeterministically.                *)
(*                                                                         *)
(* Strings that the code inspects are sequences of tokens: a url is        *)
(* <<scheme, host>>, an engine error message is a sequence of words, and   *)
(* str::contains is the contiguous-subsequence test on those words.        *)
(***************************************************************************)
EXTENDS Integers, Sequences, FiniteSets, TLC

VARIABLES
    cfg_file,        \* content of sync_config.json: "missing", "garbage" or a SyncConfig
    fs_db,           \* main database path: "none", "orig" (file of a previous run), "fresh"
    fs_wal,          \* accounts.db-wal: "none" or "orig"
    fs_shm,          \* accounts.db-shm: "none" or "orig"
    fs_sync_dir,     \* accounts.db-sync: "none", "dir", "file"
    fs_legacy,       \* accounts.db.legacy: "none", "old" (earlier backup), "orig"
    db,              \* DbState.db
    conn,            \* DbState.conn
    is_sync_enabled, \* DbState.is_sync_enabled
    sync_url,        \* DbState.sync_url
    pc,              \* position of the init_db task
    conf,            \* init_db: config (Option<SyncConfig>)
    l_db,            \* init_db: handle held in the local (db, conn) pair
    inner,           \* init_db: (_success, _url) of the tuple bound at line 241
    is_cloud_sync,   \* init_db: third component of the tuple bound at line 189
    l_sync_url,      \* init_db: fourth component of the tuple bound at line 189
    err,             \* init_db: message of the failed first synced build (line 243)
    retry_err,       \* init_db: message of the failed retry (line 291)
    result,          \* what init_db returned: "running", "Ok" or an error
    hist,            \* log of the external calls of the run: [op, ok, arg]
    fs0,             \* the files as they were when the run started
    lock_db,         \* who holds the mutex of DbState.db across an await
    last,            \* the call that returned last: [op, ok, value, engine]
    c_pc,            \* configure_sync command: "idle" or "validating"
    c_url,           \* configure_sync command: the url of the call under way
    c_token,         \* configure_sync command: the token of the call under way
    configured,      \* the SyncConfig that configure_sync wrote last, if any
    engine_failures, \* environment: the failures the sync engine can answer with
    v_pc,            \* validate_cloud_connection alone: "idle", "called", "returned"
    v_url,           \* validate_cloud_connection alone: the url passed
    v_token,         \* validate_cloud_connection alone: the token passed
    v_http,          \* validate_cloud_connection alone: what the HTTP client did
    v_sent,          \* validate_cloud_connection alone: requests handed to send()
    v_result,        \* validate_cloud_connection alone: "pending", "Ok" or the error
    tables,          \* the rows and the schema of the database at the main path
    legacy_tables,   \* the rows and the schema of the .legacy file
    remote_tables,   \* the rows and the schema of the remote primary
    sql_faults       \* environment: where run_migrations can fail in this behaviour

vars == <<cfg_file, fs_db, fs_wal, fs_shm, fs_sync_dir, fs_legacy,
          db, conn, is_sync_enabled, sync_url,
          pc, conf, l_db, inner, is_cloud_sync, l_sync_url, err, retry_err, result,
          hist, fs0,
          lock_db, last, c_pc, c_url, c_token, configured, engine_failures,
          v_pc, v_url, v_token, v_http, v_sent, v_result,
          tables, legacy_tables, remote_tables, sql_faults>>

\* the variables of init_db and of the files it works on
initVars == <<cfg_file, fs_db, fs_wal, fs_shm, fs_sync_dir, fs_legacy,
              pc, conf, l_db, inner, is_cloud_sync, l_sync_url, err, retry_err,
              result, hist, fs0, engine_failures>>

\* the variables of the calls on DbState made by commands
apiVars == <<lock_db, last>>

\* the variables of the configure_sync command
cmdVars == <<c_pc, c_url, c_token, configured>>

\* the variables of a call of validate_cloud_connection on its own
valVars == <<v_pc, v_url, v_token, v_http, v_sent, v_result>>

\* the databases as sets of rows, and where their SQL engine can fail
dataVars == <<tables, legacy_tables, remote_tables, sql_faults>>

\* what no step of init_db touches
ctlVars == <<lock_db, last, cmdVars, engine_failures, valVars, sql_faults>>

\* what a step of init_db that writes no row and moves no file leaves alone
restVars == <<ctlVars, tables, legacy_tables, remote_tables>>

fsVars    == <<fs_db, fs_wal, fs_shm, fs_sync_dir, fs_legacy>>
stateVars == <<db, conn, is_sync_enabled, sync_url>>
tupleVars == <<l_db, inner, is_cloud_sync, l_sync_url>>

----------------------------------------------------------------------------
(* Bounds of the environment                                               *)

\* number of distinct hosts a configured url may name (hosts are numbered)
MaxHosts == 1

Hosts == 1..MaxHosts

EmptyString == <<>>

\* a url is <<scheme, host>>; the empty string is <<>>
Urls ==
    {EmptyString}
    \cup {<<"libsql://", h>> : h \in Hosts}
    \cup {<<"https://", h>> : h \in Hosts}
    \cup {<<"ftp://", h>> : h \in Hosts}

Tokens == {EmptyString, <<"validtoken">>}

\* struct SyncConfig
SyncConfig == [url : Urls, token : Tokens]

\* what sync_config.json may hold: nothing (no file), text that is not a
\* SyncConfig in JSON, or a serialised SyncConfig
ConfigFiles ==
    {[kind |-> k, url |-> EmptyString, token |-> EmptyString] : k \in {"missing", "garbage"}}
    \cup {[kind |-> "json", url |-> c.url, token |-> c.token] : c \in SyncConfig}

\* Option<T>: <<>> is None, <<x>> is Some(x)
None == <<>>
Some(x) == <<x>>

\* outcomes of the HTTP probe: the client cannot be built, the request cannot
\* be sent, or a response with a status code arrives
StatusCodes == {200, 204, 401, 403, 404, 500}

HttpOutcomes ==
    {[kind |-> k, code |-> 0] : k \in {"client_build_error", "send_error"}}
    \cup {[kind |-> "response", code |-> c] : c \in StatusCodes}

\* failures of try_build_connect: the stage that fails (build, connect or
\* the eager sync) and the message of the sync engine (the {e} of
\* "Build failed: {e}" and so on)
EngineFailures ==
    { <<"build", <<"metadata", "file", "does", "not", "exist">>>>,
      <<"build", <<"invalid", "local", "state">>>>,
      <<"build", <<"connection", "refused">>>>,
      <<"connect", <<"out", "of", "memory">>>>,
      <<"sync", <<"Generation", "ID", "mismatch">>>>,
      <<"sync", <<"sync", "error:", "local", "state", "is", "incorrect">>>>,
      <<"sync", <<"server", "returned", "a", "conflict">>>>,
      <<"sync", <<"checksum", "mismatch">>>>,
      <<"sync", <<"Mismatch", "of", "generation">>>>,
      <<"sync", <<"operation", "timed", "out">>>> }

----------------------------------------------------------------------------
(* DbState                                                                 *)

\* DbState::new
DbState_new ==
    /\ db = None
    /\ conn = None
    /\ is_sync_enabled = FALSE
    /\ sync_url = EmptyString

\* DbState::is_cloud_sync_enabled
is_cloud_sync_enabled == is_sync_enabled

\* DbState::get_sync_url
get_sync_url == sync_url

\* DbState::get_connection
get_connection ==
    IF conn # None THEN [ok |-> TRUE, value |-> conn[1]]
    ELSE [ok |-> FALSE, value |-> "Database not initialized"]

\* the record of a returned call: the function, Ok or Err, the returned
\* value as a sequence of words, and whether the call reached Database::sync
Returned_call(op, ok, value, engine) ==
    [op |-> op, ok |-> ok, value |-> value, engine |-> engine]

\* no call has returned yet
NoCall == Returned_call("none", TRUE, <<>>, FALSE)

----------------------------------------------------------------------------
(* Pure helpers of db.rs                                                   *)

\* str::contains on word sequences
Contains(s, p) ==
    \E i \in 0..(Len(s) - Len(p)) : \A j \in 1..Len(p) : s[i + j] = p[j]

\* str::starts_with for a url and a scheme
starts_with(url, scheme) == Len(url) >= 1 /\ url[1] = scheme

is_empty(s) == Len(s) = 0

\* load_config: None when the file is missing or does not parse
load_config(file) ==
    IF file.kind = "json" THEN Some([url |-> file.url, token |-> file.token])
    ELSE None

\* variant: local-only is chosen only when both fields are empty
use_local_only_both_empty(c) == is_empty(c.url) /\ is_empty(c.token)

\* the test of line 191: cloud sync is tried only with both fields non-empty
use_local_only(c) == is_empty(c.url) \/ is_empty(c.token)

\* variant: only 401 is taken as an authentication failure
validate_cloud_connection_401_only(url, token, http) ==
    IF ~starts_with(url, "libsql://") /\ ~starts_with(url, "https://")
      THEN "URL must start with libsql:// or https://"
    ELSE IF http.kind = "client_build_error" THEN "Client build failed"
    ELSE IF http.kind = "send_error" THEN "Connection failed"
    ELSE IF http.code = 401 THEN "Authentication failed (Invalid Token)"
    ELSE IF ~(http.code >= 200 /\ http.code <= 299) THEN "Server returned error"
    ELSE "Ok"

\* validate_cloud_connection, given what the HTTP client does
validate_cloud_connection(url, token, http) ==
    IF ~starts_with(url, "libsql://") /\ ~starts_with(url, "https://")
      THEN "URL must start with libsql:// or https://"
    ELSE IF http.kind = "client_build_error" THEN "Client build failed"
    ELSE IF http.kind = "send_error" THEN "Connection failed"
    ELSE IF http.code = 401 \/ http.code = 403 THEN "Authentication failed (Invalid Token)"
    ELSE IF ~(http.code >= 200 /\ http.code <= 299) THEN "Server returned error"
    ELSE "Ok"

\* variant: the request is sent before the url is looked at
validation_sends_request_any_url(url, http) == http.kind # "client_build_error"

\* whether validate_cloud_connection reaches client.post(...).send()
validation_sends_request(url, http) ==
    /\ starts_with(url, "libsql://") \/ starts_with(url, "https://")
    /\ http.kind # "client_build_error"

\* the error string try_build_connect returns for a failure at a stage
try_build_connect_error(stage, e) ==
    CASE stage = "build"   -> <<"Build", "failed:">> \o e
      [] stage = "connect" -> <<"Connect", "failed:">> \o e
      [] stage = "sync"    -> <<"Initial", "sync", "failed:">> \o e

RecoverableSubstrings ==
    { <<"local", "state", "is", "incorrect">>,
      <<"invalid", "local", "state">>,
      <<"server", "returned", "a", "conflict">>,
      <<"Generation", "ID", "mismatch">>,
      <<"mismatch">>,
      <<"metadata", "file", "does", "not">> }

\* should_recover of line 247
should_recover(e) == \E p \in RecoverableSubstrings : Contains(e, p)

\* the tuple of line 319, built from the (_success, _url) bound at line 241
outer_tuple(in) == [is_cloud_sync |-> TRUE, sync_url |-> in.url]

\* the tuple (false, String::new()) of the local-only branches
local_tuple == [success |-> FALSE, url |-> EmptyString]

\* a local or synced open creates the database file when the path is empty
file_after_open(f) == IF f = "none" THEN "fresh" ELSE f

\* variant: the path keeps what it held whatever the call returned
after_remove_kept(present, ok) == present

\* variant: the path is empty afterwards whatever the call returned
after_remove_always_gone(present, ok) == "none"

\* std::fs::remove_file / remove_dir_all on a path: what is at the path
\* afterwards, given whether the operating system carried the removal out
after_remove(present, ok) == IF ok THEN "none" ELSE present

\* std::fs::rename(from, to) replaces what is at the target path
target_after_rename(from, to) == from

\* one entry of the log: the call, whether it succeeded, and a detail
Call(op, ok, arg) == [op |-> op, ok |-> ok, arg |-> arg]

Count(op) == Cardinality({i \in 1..Len(hist) : hist[i].op = op})

Did(op) == \E i \in 1..Len(hist) : hist[i].op = op

Succeeded(op) == \E i \in 1..Len(hist) : hist[i].op = op /\ hist[i].ok

Failed(op) == \E i \in 1..Len(hist) : hist[i].op = op /\ ~hist[i].ok

----------------------------------------------------------------------------
(* The databases as rows                                                   *)
(*                                                                         *)
(* A database is its schema (the names of the tables and indexes created), *)
(* one set of rows per table, and seq, the largest categories id ever      *)
(* used (AUTOINCREMENT).  A file that does not exist holds EmptyDb.        *)

EmptyDb ==
    [schema |-> {}, categories |-> {}, transactions |-> {}, installments |-> {},
     details |-> {}, seq |-> 0]

\* lines 392-399: the names of the default categories in the order of the
\* vec (in English)
DefaultCategories == <<"food", "transport", "daily goods", "children", "study", "other">>

\* the tables and indexes run_migrations creates, in the order of lines
\* 366, 413, 429, 446, 463, 470 and 477
SchemaObjects ==
    <<"categories", "transactions", "installments", "installment_details",
      "idx_transactions_date", "idx_transactions_category",
      "idx_installment_details_due_date">>

\* CREATE TABLE / CREATE INDEX IF NOT EXISTS for the first n objects
with_schema(d, n) == [d EXCEPT !.schema = @ \cup {SchemaObjects[i] : i \in 1..n}]

\* variant: the insert takes an id and stores no row
insert_category_without_row(d, name) == [d EXCEPT !.seq = d.seq + 1]

\* lines 403-407: INSERT INTO categories (name, icon); the id is the one
\* after the largest id ever used
insert_category(d, name) ==
    [d EXCEPT !.categories = @ \cup {[id |-> d.seq + 1, name |-> name]},
              !.seq = d.seq + 1]

RECURSIVE seed(_, _)
\* lines 402-409: the first k passes of the loop over default_categories
seed(d, k) == IF k = 0 THEN d ELSE insert_category(seed(d, k - 1), DefaultCategories[k])

\* variant: the defaults are inserted whatever the table holds
categories_is_empty_always(d, count_read) == TRUE

\* lines 384-388: is_empty; a failed fetch of the COUNT(*) row counts as empty
categories_is_empty(d, count_read) == IF count_read THEN d.categories = {} ELSE TRUE

\* a point of run_migrations at which a statement fails: the object being
\* created, "count" for line 380 or "seed" for the insert after k passes
Fault(step, seeded) == [step |-> step, seeded |-> seeded]

NoFault == Fault("none", 0)

FaultPoints ==
    {Fault(SchemaObjects[i], 0) : i \in 1..Len(SchemaObjects)}
    \cup {Fault("count", 0)}
    \cup {Fault("seed", k) : k \in 0..(Len(DefaultCategories) - 1)}

\* the position of an object in SchemaObjects
object_index(name) == CHOOSE i \in 1..Len(SchemaObjects) : SchemaObjects[i] = name

\* run_migrations (lines 364-485) on database d: what d holds when the run
\* ends, given whether the COUNT(*) row could be fetched and the point at
\* which a statement fails (NoFault: none does)
run_migrations(d, count_read, fault) ==
    LET created == with_schema(d, 1)
        seeded  == IF categories_is_empty(created, count_read)
                     THEN seed(created, Len(DefaultCategories))
                     ELSE created
    IN  IF fault.step = "categories" THEN d
        ELSE IF fault.step = "count" THEN created
        ELSE IF fault.step = "seed" /\ categories_is_empty(created, count_read)
               THEN seed(created, fault.seeded)
        ELSE IF fault.step \in {"none", "seed"}
               THEN with_schema(seeded, Len(SchemaObjects))
        ELSE with_schema(seeded, object_index(fault.step) - 1)

\* whether run_migrations returns Ok: a fault at "seed" does not happen when
\* the loop of lines 402-409 is not entered
run_migrations_ok(d, count_read, fault) ==
    \/ fault = NoFault
    \/ fault.step = "seed" /\ ~categories_is_empty(with_schema(d, 1), count_read)

\* the largest categories id the model follows
MaxCategoryId == 12

\* whether six more categories stay within the ids the model follows
room_for_defaults(d) == d.seq + Len(DefaultCategories) <= MaxCategoryId

\* the outcomes of one run_migrations in this behaviour
MigrationOutcomes ==
    {[count_read |-> c, fault |-> f] :
        c \in (IF sql_faults.count_read /\ room_for_defaults(tables)
                 THEN BOOLEAN ELSE {TRUE}),
        f \in {NoFault} \cup sql_faults.fatal}

\* a database on which run_migrations has run once from nothing
SeededDb == run_migrations(EmptyDb, TRUE, NoFault)

\* the faults of a behaviour in which run_migrations fails only at its first
\* statement and the COUNT(*) row can always be fetched
FirstStatementFaults == [fatal |-> {Fault("categories", 0)}, count_read |-> FALSE]

\* the databases at the start: a path without a file holds no rows
DataInit(faults, remotes, locals, legacies) ==
    /\ sql_faults = faults
    /\ remote_tables \in remotes
    /\ tables \in (IF fs_db = "none" THEN {EmptyDb} ELSE locals)
    /\ legacy_tables \in (IF fs_legacy = "none" THEN {EmptyDb} ELSE legacies)

\* what a write through a handle does to the remote primary
remote_after_write(kind, d) == IF kind = "synced" THEN d ELSE remote_tables

----------------------------------------------------------------------------
(* Rows: deleting a category and importing the .legacy database            *)
(*                                                                         *)
(* The connection init_db publishes has PRAGMA foreign_keys = ON (line     *)
(* 333), so a DELETE cascades along the FOREIGN KEY clauses of lines 421,  *)
(* 438 and 455, INSERT OR REPLACE removes the row it replaces in the same  *)
(* way, and a row whose parent is missing is refused.                      *)

Max(a, b) == IF a >= b THEN a ELSE b

\* DELETE FROM installments WHERE id = ?, with the cascade to the details
delete_installment(d, id) ==
    [d EXCEPT !.installments = {x \in @ : x.id # id},
              !.details = {x \in @ : x.installment_id # id}]

\* category_repo::delete_category: DELETE FROM categories WHERE id = ?, with
\* the cascade to transactions, installments and their details
delete_category(d, id) ==
    LET gone == {x.id : x \in {y \in d.installments : y.category_id = id}}
    IN  [d EXCEPT !.categories = {x \in @ : x.id # id},
                  !.transactions = {x \in @ : x.category_id # id},
                  !.installments = {x \in @ : x.category_id # id},
                  !.details = {x \in @ : x.installment_id \notin gone}]

\* the tables migrate_from_legacy copies, in the order of lines 537-622
ImportedTables == <<"categories", "transactions", "installments", "installment_details">>

\* the rows of a table of database d
rows_of(d, table) ==
    CASE table = "categories"          -> d.categories
      [] table = "transactions"        -> d.transactions
      [] table = "installments"        -> d.installments
      [] table = "installment_details" -> d.details

\* whether the parent row that the FOREIGN KEY of row r names is in d
parent_present(d, table, r) ==
    CASE table = "categories"          -> TRUE
      [] table = "transactions"        -> \E c \in d.categories : c.id = r.category_id
      [] table = "installments"        -> \E c \in d.categories : c.id = r.category_id
      [] table = "installment_details" -> \E i \in d.installments : i.id = r.installment_id

\* variant: the row that is replaced goes without its children
insert_or_replace_no_cascade(d, table, r) ==
    CASE table = "categories" ->
           [d EXCEPT !.categories = {x \in @ : x.id # r.id} \cup {r},
                     !.seq = Max(@, r.id)]
      [] table = "transactions" ->
           [d EXCEPT !.transactions = {x \in @ : x.id # r.id} \cup {r}]
      [] table = "installments" ->
           [d EXCEPT !.installments = {x \in @ : x.id # r.id} \cup {r}]
      [] table = "installment_details" ->
           [d EXCEPT !.details = {x \in @ : x.id # r.id} \cup {r}]

\* INSERT OR REPLACE INTO table (lines 548, 569, 591, 613): a row with the
\* same id is deleted first, with its cascade, then r is inserted
insert_or_replace(d, table, r) ==
    CASE table = "categories" ->
           [delete_category(d, r.id) EXCEPT !.categories = @ \cup {r},
                                            !.seq = Max(@, r.id)]
      [] table = "transactions" ->
           [d EXCEPT !.transactions = {x \in @ : x.id # r.id} \cup {r}]
      [] table = "installments" ->
           [delete_installment(d, r.id) EXCEPT !.installments = @ \cup {r}]
      [] table = "installment_details" ->
           [d EXCEPT !.details = {x \in @ : x.id # r.id} \cup {r}]

\* the row with the smallest id of a non-empty set of rows
first_row(S) == CHOOSE r \in S : \A x \in S : r.id <= x.id

\* the progress of an import: the database written so far, whether an
\* execute has failed, and the rows copied per table
Progress(d, failed, counts) == [d |-> d, failed |-> failed, counts |-> counts]

RECURSIVE copy_rows(_, _, _, _)
\* one while loop of lines 545-553 (567, 588, 609): the rows S of the legacy
\* table in id order; fail_at is the number of rows after which the execute
\* fails (-1: never)
copy_rows(p, table, S, fail_at) ==
    IF S = {} \/ p.failed THEN p
    ELSE LET r == first_row(S) IN
         IF fail_at = 0 \/ ~parent_present(p.d, table, r)
           THEN Progress(p.d, TRUE, p.counts)
           ELSE copy_rows(Progress(insert_or_replace(p.d, table, r), FALSE,
                                   [p.counts EXCEPT ![table] = @ + 1]),
                          table, S \ {r},
                          IF fail_at > 0 THEN fail_at - 1 ELSE fail_at)

\* a fault of one import: in table `table` the SELECT cannot be prepared
\* ("prepare"), the fetch of a row fails and ends the loop ("read"), or the
\* execute of the first row fails ("execute"); "none" for no fault
ImportFault(kind, table) == [kind |-> kind, table |-> table]

ImportFaults ==
    {ImportFault("none", "none")}
    \cup {ImportFault(k, ImportedTables[i]) :
            k \in {"prepare", "read", "execute"}, i \in 1..Len(ImportedTables)}

RECURSIVE import_from(_, _, _, _)
\* lines 537-622 from table number i on: legacy is the .legacy database
import_from(p, legacy, i, fault) ==
    IF i > Len(ImportedTables) \/ p.failed THEN p
    ELSE LET table == ImportedTables[i]
             hit   == fault.table = table
         IN  IF table \notin legacy.schema \/ (hit /\ fault.kind = "prepare")
               THEN Progress(p.d, TRUE, p.counts)
             ELSE IF hit /\ fault.kind = "read"
               THEN import_from(p, legacy, i + 1, fault)
             ELSE import_from(
                    copy_rows(p, table, rows_of(legacy, table),
                              IF hit /\ fault.kind = "execute" THEN 0 ELSE -1),
                    legacy, i + 1, fault)

NoCounts == [t \in {ImportedTables[i] : i \in 1..Len(ImportedTables)} |-> 0]

\* the body of migrate_from_legacy after the .legacy file was opened
import(d, legacy, fault) == import_from(Progress(d, FALSE, NoCounts), legacy, 1, fault)

----------------------------------------------------------------------------
EnvInit(failures) ==
    /\ engine_failures = failures
    /\ cfg_file \in ConfigFiles
    /\ fs_db \in {"none", "orig"}
    /\ fs_wal \in {"none", "orig"}
    /\ fs_shm \in {"none", "orig"}
    /\ (fs_db = "none") => (fs_wal = "none" /\ fs_shm = "none")
    /\ fs_sync_dir \in {"none", "dir", "file"}
    /\ fs_legacy \in {"none", "old"}
    /\ DbState_new
    /\ pc = "idle"
    /\ conf = None
    /\ l_db = None
    /\ inner = local_tuple
    /\ is_cloud_sync = FALSE
    /\ l_sync_url = EmptyString
    /\ err = <<>>
    /\ retry_err = <<>>
    /\ result = "running"
    /\ hist = <<>>
    /\ fs0 = [db |-> fs_db, wal |-> fs_wal, shm |-> fs_shm,
              sync_dir |-> fs_sync_dir, legacy |-> fs_legacy]
    /\ lock_db = "free"
    /\ last = NoCall
    /\ c_pc = "idle"
    /\ c_url = EmptyString
    /\ c_token = EmptyString
    /\ configured = None

\* no call of validate_cloud_connection on its own is under way
ValIdle ==
    /\ v_pc = "idle"
    /\ v_url = EmptyString
    /\ v_token = EmptyString
    /\ v_http = [kind |-> "response", code |-> 0]
    /\ v_sent = 0
    /\ v_result = "pending"

\* the state when run (lib.rs) has built the DbState, in any environment
Init ==
    /\ EnvInit(EngineFailures)
    /\ ValIdle
    /\ DataInit(FirstStatementFaults, {EmptyDb}, {SeededDb}, {SeededDb})

----------------------------------------------------------------------------
(* run (lib.rs): the setup hook spawns init_db on the shared DbState       *)

SpawnInit ==
    /\ pc = "idle"
    /\ pc' = "load_config"
    /\ UNCHANGED <<restVars, cfg_file, fsVars, stateVars, conf, tupleVars, err, retry_err, result, hist, fs0>>

----------------------------------------------------------------------------
(* init_db                                                                 *)

\* the five places where init_db opens the file with Builder::new_local
LocalOpenPcs ==
    {"local_open_no_config", "local_open_empty_field", "local_open_invalid",
     "local_open_retry_failed", "local_open_non_recoverable"}

\* the local opens that sit inside the match of line 241
InnerLocalOpenPcs == {"local_open_retry_failed", "local_open_non_recoverable"}

\* line 187 and the branch of lines 189-191
LoadConfig ==
    /\ pc = "load_config"
    /\ conf' = load_config(cfg_file)
    /\ hist' = Append(hist, Call("load_config", conf' # None, ""))
    /\ pc' = IF conf' = None THEN "local_open_no_config"
             ELSE IF use_local_only(conf'[1]) THEN "local_open_empty_field"
             ELSE "validate"
    /\ UNCHANGED <<restVars, cfg_file, fsVars, stateVars, tupleVars, err, retry_err, result, fs0>>

\* variant: the result of the validation is ignored
after_validation_ignored(res) == "build1"

\* where init_db goes after validation (line 208)
after_validation(res) == IF res = "Ok" THEN "build1" ELSE "local_open_invalid"

\* line 206
Validate ==
    /\ pc = "validate"
    /\ \E http \in HttpOutcomes :
         LET res == validate_cloud_connection(conf[1].url, conf[1].token, http) IN
           /\ hist' = hist
                        \o (IF validation_sends_request(conf[1].url, http)
                              THEN <<Call("http_post", http.kind = "response", "")>>
                              ELSE <<>>)
                        \o <<Call("validate", res = "Ok", res)>>
           /\ pc' = after_validation(res)
    /\ UNCHANGED <<restVars, cfg_file, fsVars, stateVars, conf, tupleVars, err, retry_err, result, fs0>>

\* the engine calls of one try_build_connect that fails at a stage
\* ("none": all three succeed)
build_log(failing) ==
    CASE failing = "build"   -> <<Call("synced_build", FALSE, "")>>
      [] failing = "connect" -> <<Call("synced_build", TRUE, ""),
                                  Call("synced_connect", FALSE, "")>>
      [] failing = "sync"    -> <<Call("synced_build", TRUE, ""),
                                  Call("synced_connect", TRUE, ""),
                                  Call("eager_sync", FALSE, "")>>
      [] failing = "none"    -> <<Call("synced_build", TRUE, ""),
                                  Call("synced_connect", TRUE, ""),
                                  Call("eager_sync", TRUE, "")>>

\* variant: a failure that is not recoverable removes the side files and
\* the sync directory before the retry
after_first_failure_wipe_side_files(e) ==
    IF should_recover(e) THEN "rm_legacy" ELSE "rm_wal"

\* variant: every failure of the first synced build starts the recovery
after_first_failure_always_recover(e) == "rm_legacy"

\* variant: a recoverable failure is retried without the quarantine
after_first_failure_no_cleanup(e) ==
    IF should_recover(e) THEN "build2" ELSE "local_open_non_recoverable"

\* where init_db goes when the first try_build_connect failed (line 256)
after_first_failure(e) ==
    IF should_recover(e) THEN "rm_legacy" ELSE "local_open_non_recoverable"

\* line 241, Ok arm (line 242) and the tuple of line 319
Build1Ok ==
    /\ pc = "build1"
    /\ hist' = hist \o build_log("none")
    /\ fs_db' = file_after_open(fs_db)
    /\ l_db' = Some("synced")
    /\ inner' = [success |-> TRUE, url |-> conf[1].url]
    /\ is_cloud_sync' = outer_tuple(inner').is_cloud_sync
    /\ l_sync_url' = outer_tuple(inner').sync_url
    /\ pc' = "enable_fk"
    /\ tables' = remote_tables
    /\ UNCHANGED <<ctlVars, legacy_tables, remote_tables, cfg_file, fs_wal, fs_shm,
                   fs_sync_dir, fs_legacy, stateVars, conf, err, retry_err, result, fs0>>

\* line 241, Err arm: classification of lines 247-256
Build1Err ==
    /\ pc = "build1"
    /\ \E f \in engine_failures :
         /\ hist' = hist \o build_log(f[1])
         /\ err' = try_build_connect_error(f[1], f[2])
         /\ pc' = after_first_failure(err')
    /\ UNCHANGED <<restVars, cfg_file, fsVars, stateVars, conf, tupleVars, retry_err, result, fs0>>

\* lines 260-264: a pre-existing .legacy file is removed (best effort)
RemoveOldLegacy ==
    /\ pc = "rm_legacy"
    /\ IF fs_legacy # "none"
         THEN \E ok \in BOOLEAN :
                /\ hist' = Append(hist, Call("rm_legacy", ok, ""))
                /\ fs_legacy' = after_remove(fs_legacy, ok)
                /\ legacy_tables' = IF ok THEN EmptyDb ELSE legacy_tables
         ELSE UNCHANGED <<hist, fs_legacy, legacy_tables>>
    /\ pc' = "rename"
    /\ UNCHANGED <<ctlVars, tables, remote_tables, cfg_file, fs_db, fs_wal, fs_shm, fs_sync_dir, stateVars,
                   conf, tupleVars, err, retry_err, result, fs0>>

\* line 265: rename of the database file to .legacy
RenameToLegacy ==
    /\ pc = "rename"
    /\ \E ok \in BOOLEAN :
         /\ (fs_db = "none") => ~ok
         /\ hist' = Append(hist, Call("rename", ok, ""))
         /\ IF ok
              THEN /\ fs_legacy' = target_after_rename(fs_db, fs_legacy)
                   /\ fs_db' = "none"
                   /\ legacy_tables' = target_after_rename(tables, legacy_tables)
                   /\ tables' = EmptyDb
                   /\ pc' = "rm_wal"
              ELSE /\ UNCHANGED <<fs_db, fs_legacy, tables, legacy_tables>>
                   /\ pc' = "rm_db"
    /\ UNCHANGED <<ctlVars, remote_tables, cfg_file, fs_wal, fs_shm, fs_sync_dir, stateVars,
                   conf, tupleVars, err, retry_err, result, fs0>>

\* line 267: the rename failed, the database file is removed (best effort)
RemoveDb ==
    /\ pc = "rm_db"
    /\ \E ok \in BOOLEAN :
         /\ (fs_db = "none") => ~ok
         /\ hist' = Append(hist, Call("rm_db", ok, ""))
         /\ fs_db' = after_remove(fs_db, ok)
         /\ tables' = IF ok THEN EmptyDb ELSE tables
    /\ pc' = "rm_wal"
    /\ UNCHANGED <<ctlVars, legacy_tables, remote_tables, cfg_file, fs_wal, fs_shm, fs_sync_dir, fs_legacy, stateVars,
                   conf, tupleVars, err, retry_err, result, fs0>>

\* line 274
RemoveWal ==
    /\ pc = "rm_wal"
    /\ \E ok \in BOOLEAN :
         /\ (fs_wal = "none") => ~ok
         /\ hist' = Append(hist, Call("rm_wal", ok, ""))
         /\ fs_wal' = after_remove(fs_wal, ok)
    /\ pc' = "rm_shm"
    /\ UNCHANGED <<restVars, cfg_file, fs_db, fs_shm, fs_sync_dir, fs_legacy, stateVars,
                   conf, tupleVars, err, retry_err, result, fs0>>

\* line 275
RemoveShm ==
    /\ pc = "rm_shm"
    /\ \E ok \in BOOLEAN :
         /\ (fs_shm = "none") => ~ok
         /\ hist' = Append(hist, Call("rm_shm", ok, ""))
         /\ fs_shm' = after_remove(fs_shm, ok)
    /\ pc' = "rm_sync_dir"
    /\ UNCHANGED <<restVars, cfg_file, fs_db, fs_wal, fs_sync_dir, fs_legacy, stateVars,
                   conf, tupleVars, err, retry_err, result, fs0>>

\* lines 277-285
RemoveSyncDir ==
    /\ pc = "rm_sync_dir"
    /\ IF fs_sync_dir # "none"
         THEN \E ok \in BOOLEAN :
                /\ hist' = Append(hist, Call("rm_sync_dir", ok, fs_sync_dir))
                /\ fs_sync_dir' = after_remove(fs_sync_dir, ok)
         ELSE UNCHANGED <<restVars, hist, fs_sync_dir>>
    /\ pc' = "build2"
    /\ UNCHANGED <<restVars, cfg_file, fs_db, fs_wal, fs_shm, fs_legacy, stateVars,
                   conf, tupleVars, err, retry_err, result, fs0>>

\* variant: a recoverable failure of the retry starts the recovery again
after_retry_failure_recover_again(e) ==
    IF should_recover(e) THEN "rm_legacy" ELSE "local_open_retry_failed"

\* where init_db goes when the retry failed (line 291)
after_retry_failure(e) == "local_open_retry_failed"

\* line 289, Ok arm (line 290) and the tuple of line 319
Build2Ok ==
    /\ pc = "build2"
    /\ hist' = hist \o build_log("none")
    /\ fs_db' = file_after_open(fs_db)
    /\ l_db' = Some("synced")
    /\ inner' = [success |-> TRUE, url |-> conf[1].url]
    /\ is_cloud_sync' = outer_tuple(inner').is_cloud_sync
    /\ l_sync_url' = outer_tuple(inner').sync_url
    /\ pc' = "enable_fk"
    /\ tables' = remote_tables
    /\ UNCHANGED <<ctlVars, legacy_tables, remote_tables, cfg_file, fs_wal, fs_shm,
                   fs_sync_dir, fs_legacy, stateVars, conf, err, retry_err, result, fs0>>

\* line 289, Err arm (lines 291-295)
Build2Err ==
    /\ pc = "build2"
    /\ \E f \in engine_failures :
         /\ hist' = hist \o build_log(f[1])
         /\ retry_err' = try_build_connect_error(f[1], f[2])
         /\ pc' = after_retry_failure(retry_err')
    /\ UNCHANGED <<restVars, cfg_file, fsVars, stateVars, conf, tupleVars, err, result, fs0>>

\* variant: every local open goes through the tuple of line 319
tuple_after_local_open_always_outer(at) == outer_tuple(local_tuple)

\* the (is_cloud_sync, sync_url) a local open contributes to the tuple of
\* line 189: (false, "") directly, or through lines 301/314 and line 319
tuple_after_local_open(at) ==
    IF at \in InnerLocalOpenPcs THEN outer_tuple(local_tuple)
    ELSE [is_cloud_sync |-> FALSE, sync_url |-> EmptyString]

\* lines 193-198, 211-216, 296-301, 309-314, 324-329
LocalOpen ==
    /\ pc \in LocalOpenPcs
    /\ \E outcome \in {"ok", "build_error", "connect_error"} :
         /\ hist' = Append(hist, Call("local_open", outcome = "ok", pc))
         /\ IF outcome = "ok"
              THEN /\ fs_db' = file_after_open(fs_db)
                   /\ l_db' = Some("local")
                   /\ inner' = local_tuple
                   /\ is_cloud_sync' = tuple_after_local_open(pc).is_cloud_sync
                   /\ l_sync_url' = tuple_after_local_open(pc).sync_url
                   /\ pc' = "enable_fk"
                   /\ UNCHANGED result
              ELSE /\ fs_db' = IF outcome = "connect_error"
                                 THEN file_after_open(fs_db) ELSE fs_db
                   /\ result' = IF outcome = "build_error"
                                  THEN "Failed to build local db"
                                  ELSE "Failed to connect"
                   /\ pc' = "returned"
                   /\ UNCHANGED tupleVars
    /\ UNCHANGED <<restVars, cfg_file, fs_wal, fs_shm, fs_sync_dir, fs_legacy, stateVars,
                   conf, err, retry_err, fs0>>

\* variant: a failure of the foreign-key pragma is ignored
after_foreign_keys_failure_ignored(kind) == "migrate"

\* where init_db goes when enabling foreign keys failed (the ? of line 335)
after_foreign_keys_failure(kind) == "returned"

\* lines 333-335
EnableForeignKeys ==
    /\ pc = "enable_fk"
    /\ \E ok \in BOOLEAN :
         /\ hist' = Append(hist, Call("foreign_keys", ok, l_db[1]))
         /\ pc' = IF ok THEN "migrate" ELSE after_foreign_keys_failure(l_db[1])
         /\ result' = IF pc' = "returned" THEN "Failed to enable foreign keys" ELSE result
         /\ l_db' = IF pc' = "returned" THEN None ELSE l_db
    /\ UNCHANGED <<restVars, cfg_file, fsVars, stateVars, conf, inner, is_cloud_sync,
                   l_sync_url, err, retry_err, fs0>>

\* variant: the handles are published although the migration failed
after_migration_failure_published(kind) == "publish_db"

\* variant: a migration failure on a synced connection falls back to local
after_migration_failure_cloud_fallback(kind) ==
    IF kind = "synced" THEN "local_open_retry_failed" ELSE "returned"

\* where init_db goes when run_migrations failed (the ? of line 338)
after_migration_failure(kind) == "returned"

\* line 338
RunMigrations ==
    /\ pc = "migrate"
    /\ \E out \in MigrationOutcomes :
         LET ok == run_migrations_ok(tables, out.count_read, out.fault) IN
         /\ tables' = run_migrations(tables, out.count_read, out.fault)
         /\ remote_tables' = remote_after_write(l_db[1], tables')
         /\ hist' = Append(hist, Call("migrate", ok, l_db[1]))
         /\ pc' = IF ok THEN "publish_db" ELSE after_migration_failure(l_db[1])
         /\ result' = IF pc' = "returned" THEN "migration failed" ELSE result
         /\ l_db' = IF pc' = "returned" THEN None ELSE l_db
    /\ UNCHANGED <<ctlVars, legacy_tables, cfg_file, fsVars, stateVars, conf, inner, is_cloud_sync,
                   l_sync_url, err, retry_err, fs0>>

\* variant: the slot is left empty
stored_nothing(h) == None

\* the value init_db stores in a slot of DbState for a handle it holds
stored(h) == h

\* line 341
PublishDb ==
    /\ pc = "publish_db"
    /\ lock_db = "free"
    /\ db' = stored(l_db)
    /\ pc' = "publish_conn"
    /\ UNCHANGED <<restVars, cfg_file, fsVars, conn, is_sync_enabled, sync_url, conf,
                   tupleVars, err, retry_err, result, hist, fs0>>

\* line 342
PublishConn ==
    /\ pc = "publish_conn"
    /\ conn' = stored(l_db)
    /\ pc' = "publish_enabled"
    /\ UNCHANGED <<restVars, cfg_file, fsVars, db, is_sync_enabled, sync_url, conf,
                   tupleVars, err, retry_err, result, hist, fs0>>

\* line 343 with line 48 of set_sync_config
PublishSyncEnabled ==
    /\ pc = "publish_enabled"
    /\ is_sync_enabled' = is_cloud_sync
    /\ pc' = "publish_url"
    /\ UNCHANGED <<restVars, cfg_file, fsVars, db, conn, sync_url, conf,
                   tupleVars, err, retry_err, result, hist, fs0>>

\* line 343 with line 49 of set_sync_config, and the Ok(()) of line 345
PublishSyncUrl ==
    /\ pc = "publish_url"
    /\ sync_url' = l_sync_url
    /\ result' = "Ok"
    /\ pc' = "returned"
    /\ UNCHANGED <<restVars, cfg_file, fsVars, db, conn, is_sync_enabled, conf,
                   tupleVars, err, retry_err, hist, fs0>>

Next ==
    \/ SpawnInit
    \/ LoadConfig
    \/ Validate
    \/ Build1Ok
    \/ Build1Err
    \/ RemoveOldLegacy
    \/ RenameToLegacy
    \/ RemoveDb
    \/ RemoveWal
    \/ RemoveShm
    \/ RemoveSyncDir
    \/ Build2Ok
    \/ Build2Err
    \/ LocalOpen
    \/ EnableForeignKeys
    \/ RunMigrations
    \/ PublishDb
    \/ PublishConn
    \/ PublishSyncEnabled
    \/ PublishSyncUrl

Spec == Init /\ [][Next]_vars

\* every awaited call of the run returns, so the task keeps being scheduled
FairSpec == Spec /\ WF_vars(Next)

----------------------------------------------------------------------------
(* The calls on DbState that commands make while init_db runs              *)
(*                                                                         *)
(* The four fields have a mutex each.  A guard is kept over an await only  *)
(* by sync (the db guard, over Database::sync) and by close (the db guard, *)
(* while it awaits the conn mutex); every other critical section ends      *)
(* without an await and is one step.                                       *)

\* the text of line 73 (cloud sync is not enabled: configure it and restart)
SyncNotEnabledMessage == <<"cloud sync is not enabled">>

\* the prefix of the text of line 76 (sync failed: {e})
SyncFailedPrefix == <<"sync failed:">>

\* the text of line 80 (the database is not initialised)
NoDatabaseMessage == <<"the database is not initialised">>

\* what Database::sync of line 69 answers: a handle opened with
\* Builder::new_local refuses, a synced handle succeeds or reports an error
db_sync_outcomes(handle) ==
    IF handle = "local"
      THEN { [ok |-> FALSE,
              e |-> <<"Sync", "is", "not", "supported", "in", "databases",
                      "opened", "in", "File", "mode">>] }
      ELSE { [ok |-> TRUE, e |-> <<>>],
             [ok |-> FALSE, e |-> <<"replication", "not", "supported", "by", "the", "server">>],
             [ok |-> FALSE, e |-> <<"connection", "refused">>],
             [ok |-> FALSE, e |-> <<"operation", "timed", "out">>] }

\* variant: every engine error is reported as a failed sync
sync_error_generic(e) == SyncFailedPrefix \o e

\* lines 70-77: the error sync returns for an error of Database::sync
sync_error(e) ==
    IF Contains(e, <<"File", "mode">>) \/ Contains(e, <<"not", "supported">>)
      THEN SyncNotEnabledMessage
      ELSE SyncFailedPrefix \o e

\* line 68: sync goes to the engine when the slot holds a handle
sync_reaches_engine(slot) == slot # None

\* variant: get_connection locks the db mutex
get_connection_mutex_db == "db"

\* line 59: the mutex get_connection awaits
get_connection_mutex == "conn"

\* whether a mutex of DbState is held over an await by some task
held(mutex) == mutex = "db" /\ lock_db # "free"

\* variant: close clears the handle and keeps the connection
close_db_only(s) == [db |-> None, conn |-> s.conn]

\* lines 87-88: what close leaves in the two slots
close(s) == [db |-> None, conn |-> None]

\* DbState::get_connection, called by a command
GetConnection ==
    /\ ~held(get_connection_mutex)
    /\ last' = Returned_call("get_connection", get_connection.ok,
                             <<get_connection.value>>, FALSE)
    /\ UNCHANGED <<initVars, stateVars, lock_db, cmdVars, valVars, dataVars>>

\* DbState::sync, lines 67-68 and 79-81: takes the db mutex; without a handle
\* it returns at once, with one it starts Database::sync under the guard
SyncLock ==
    /\ lock_db = "free"
    /\ IF sync_reaches_engine(db)
         THEN /\ lock_db' = "sync"
              /\ UNCHANGED last
         ELSE /\ last' = Returned_call("sync", FALSE, NoDatabaseMessage, FALSE)
              /\ UNCHANGED lock_db
    /\ UNCHANGED <<initVars, stateVars, cmdVars, valVars, dataVars>>

\* DbState::sync, lines 69-78: Database::sync answers and the guard is dropped
SyncReturn ==
    /\ lock_db = "sync"
    /\ \E out \in db_sync_outcomes(IF db = None THEN "none" ELSE db[1]) :
         last' = IF out.ok THEN Returned_call("sync", TRUE, <<>>, TRUE)
                 ELSE Returned_call("sync", FALSE, sync_error(out.e), TRUE)
    /\ lock_db' = "free"
    /\ UNCHANGED <<initVars, stateVars, cmdVars, valVars, dataVars>>

\* DbState::close, line 86: takes the db mutex
CloseLockDb ==
    /\ lock_db = "free"
    /\ lock_db' = "close"
    /\ UNCHANGED <<initVars, stateVars, last, cmdVars, valVars, dataVars>>

\* DbState::close, lines 87-89: takes the conn mutex, clears both slots and
\* drops both guards
CloseFinish ==
    /\ lock_db = "close"
    /\ ~held("conn")
    /\ db' = close([db |-> db, conn |-> conn]).db
    /\ conn' = close([db |-> db, conn |-> conn]).conn
    /\ lock_db' = "free"
    /\ last' = Returned_call("close", TRUE, <<>>, FALSE)
    /\ UNCHANGED <<initVars, is_sync_enabled, sync_url, cmdVars, valVars, dataVars>>

\* variant: the flag is read under the db mutex
is_cloud_sync_enabled_mutex_db == "db"

\* line 43: the mutex is_cloud_sync_enabled awaits
is_cloud_sync_enabled_mutex == "is_sync_enabled"

\* line 53: the mutex get_sync_url awaits
get_sync_url_mutex == "sync_url"

\* DbState::is_cloud_sync_enabled, called by a command
IsCloudSyncEnabled ==
    /\ ~held(is_cloud_sync_enabled_mutex)
    /\ last' = Returned_call("is_cloud_sync_enabled", TRUE,
                             <<IF is_cloud_sync_enabled THEN "true" ELSE "false">>, FALSE)
    /\ UNCHANGED <<initVars, stateVars, lock_db, cmdVars, valVars, dataVars>>

\* DbState::get_sync_url, called by a command; the log keeps the scheme of
\* the url returned
GetSyncUrl ==
    /\ ~held(get_sync_url_mutex)
    /\ last' = Returned_call("get_sync_url", TRUE,
                             IF get_sync_url = EmptyString THEN <<>>
                             ELSE <<get_sync_url[1]>>, FALSE)
    /\ UNCHANGED <<initVars, stateVars, lock_db, cmdVars, valVars, dataVars>>

\* the engine failures of these sessions: one that is not recoverable and
\* one that is
ConfigEngineFailures ==
    { <<"build", <<"connection", "refused">>>>,
      <<"sync", <<"Generation", "ID", "mismatch">>>> }

\* the setup hook of lib.rs with one configuration of the files: the calls
\* on DbState do not look at the files
ApiInit ==
    /\ EnvInit(ConfigEngineFailures)
    /\ ValIdle
    /\ DataInit(FirstStatementFaults, {EmptyDb}, {SeededDb}, {SeededDb})
    /\ cfg_file \in {[kind |-> "missing", url |-> EmptyString, token |-> EmptyString],
                     [kind |-> "json", url |-> <<"libsql://", 1>>, token |-> <<"validtoken">>]}
    /\ fs_db = "orig" /\ fs_wal = "orig" /\ fs_shm = "orig"
    /\ fs_sync_dir = "dir" /\ fs_legacy = "old"

ApiNext ==
    \/ Next
    \/ GetConnection
    \/ SyncLock
    \/ SyncReturn
    \/ CloseLockDb
    \/ CloseFinish
    \/ IsCloudSyncEnabled
    \/ GetSyncUrl

\* init_db running while commands call DbState
ApiSpec == ApiInit /\ [][ApiNext]_vars

----------------------------------------------------------------------------
(* The commands configure_sync and get_sync_config, and a restart          *)

\* variant: the command never validates
needs_validation_never(url, token) == FALSE

\* lib.rs line 207: the connection is validated when both fields are given
needs_validation(url, token) == ~is_empty(url) /\ ~is_empty(token)

\* variant: the token is not written
serialized_without_token(c) == [kind |-> "json", url |-> c.url, token |-> EmptyString]

\* line 492: serde_json::to_string of the SyncConfig, as the file content
serialized(c) == [kind |-> "json", url |-> c.url, token |-> c.token]

\* get_sync_config (lines 504-506)
get_sync_config == load_config(cfg_file)

\* what configure_sync returned: Ok or Err, and as value the verdict of the
\* validation ("not validated" when it was skipped) followed by the error
\* text: "" for Ok, "validation failed" for the text of lib.rs line 209 (its
\* prefix, then the verdict), "io error" for the error of db.rs line 495
configure_result(ok, verdict, msg) ==
    Returned_call("configure_sync", ok, <<verdict, msg>>, FALSE)

\* the arguments the user passes to configure_sync
ConfigureArgs ==
    { [url |-> <<"libsql://", 1>>, token |-> <<"validtoken">>],
      [url |-> <<"ftp://", 1>>, token |-> <<"validtoken">>],
      [url |-> <<"https://", 1>>, token |-> EmptyString],
      [url |-> EmptyString, token |-> EmptyString] }

\* std::fs::write of line 492: the file holds the new content, or the write
\* fails and leaves the old content or a truncated file
write_config(url, token, verdict) ==
    \/ /\ cfg_file' = serialized([url |-> url, token |-> token])
       /\ configured' = Some([url |-> url, token |-> token])
       /\ last' = configure_result(TRUE, verdict, "")
    \/ /\ cfg_file' \in {cfg_file, [kind |-> "garbage", url |-> EmptyString, token |-> EmptyString]}
       /\ configured' = IF cfg_file' = cfg_file THEN configured ELSE None
       /\ last' = configure_result(FALSE, verdict, "io error")

\* configure_sync (lib.rs lines 201-215) is called: with an empty field it
\* writes the file at once, otherwise it sends the validation request
ConfigureSyncCall ==
    /\ c_pc = "idle"
    /\ \E a \in ConfigureArgs :
         IF needs_validation(a.url, a.token)
           THEN /\ c_pc' = "validating"
                /\ c_url' = a.url
                /\ c_token' = a.token
                /\ UNCHANGED <<cfg_file, configured, last>>
           ELSE /\ write_config(a.url, a.token, "not validated")
                /\ UNCHANGED <<c_pc, c_url, c_token>>
    /\ UNCHANGED <<fsVars, stateVars, pc, conf, tupleVars, err, retry_err, result,
                   hist, fs0, lock_db, engine_failures, valVars, dataVars>>

\* configure_sync: the validation of lib.rs line 208 returns; its error ends
\* the command, its Ok is followed by the write of db.rs lines 488-501
ConfigureSyncValidated ==
    /\ c_pc = "validating"
    /\ \E http \in HttpOutcomes :
         LET res == validate_cloud_connection(c_url, c_token, http)
         IN  IF res = "Ok"
               THEN write_config(c_url, c_token, res)
               ELSE /\ last' = configure_result(FALSE, res, "validation failed")
                    /\ UNCHANGED <<cfg_file, configured>>
    /\ c_pc' = "idle"
    /\ c_url' = EmptyString
    /\ c_token' = EmptyString
    /\ UNCHANGED <<fsVars, stateVars, pc, conf, tupleVars, err, retry_err, result,
                   hist, fs0, lock_db, engine_failures, valVars, dataVars>>

\* the application is closed and started again: run (lib.rs) builds a new
\* DbState and spawns init_db; the files stay as they are
Restart ==
    /\ pc # "idle"
    /\ lock_db' = "free"
    /\ db' = None /\ conn' = None /\ is_sync_enabled' = FALSE /\ sync_url' = EmptyString
    /\ pc' = "idle"
    /\ conf' = None
    /\ l_db' = None
    /\ inner' = local_tuple
    /\ is_cloud_sync' = FALSE
    /\ l_sync_url' = EmptyString
    /\ err' = <<>>
    /\ retry_err' = <<>>
    /\ result' = "running"
    /\ hist' = <<>>
    /\ fs0' = [db |-> fs_db, wal |-> fs_wal, shm |-> fs_shm,
               sync_dir |-> fs_sync_dir, legacy |-> fs_legacy]
    /\ last' = NoCall
    /\ c_pc' = "idle"
    /\ c_url' = EmptyString
    /\ c_token' = EmptyString
    /\ UNCHANGED <<cfg_file, fsVars, configured, engine_failures, valVars, dataVars>>

\* a first start without sync_config.json
ConfigInit ==
    /\ EnvInit(ConfigEngineFailures)
    /\ ValIdle
    /\ DataInit(FirstStatementFaults, {EmptyDb}, {SeededDb}, {SeededDb})
    /\ cfg_file = [kind |-> "missing", url |-> EmptyString, token |-> EmptyString]
    /\ fs_db = "none" /\ fs_wal = "none" /\ fs_shm = "none"
    /\ fs_sync_dir = "none" /\ fs_legacy = "none"

ConfigNext ==
    \/ Next
    \/ ConfigureSyncCall
    \/ ConfigureSyncValidated
    \/ Restart

\* sessions of the application in which the user configures cloud sync
ConfigSpec == ConfigInit /\ [][ConfigNext]_vars

----------------------------------------------------------------------------
(* validate_cloud_connection on its own                                    *)

\* the status codes a response may carry, with the edges of the 2xx range
ValStatusCodes == {199, 200, 204, 299, 300, 400, 401, 402, 403, 404, 500, 503}

ValHttpOutcomes ==
    {[kind |-> k, code |-> 0] : k \in {"client_build_error", "send_error"}}
    \cup {[kind |-> "response", code |-> c] : c \in ValStatusCodes}

\* a caller is about to pass a url and a token
ValInit ==
    /\ EnvInit(EngineFailures)
    /\ cfg_file = [kind |-> "missing", url |-> EmptyString, token |-> EmptyString]
    /\ fs_db = "none" /\ fs_wal = "none" /\ fs_shm = "none"
    /\ fs_sync_dir = "none" /\ fs_legacy = "none"
    /\ v_pc = "called"
    /\ v_url \in Urls
    /\ v_token \in Tokens
    /\ v_http = [kind |-> "response", code |-> 0]
    /\ v_sent = 0
    /\ v_result = "pending"
    /\ DataInit(FirstStatementFaults, {EmptyDb}, {SeededDb}, {SeededDb})

\* validate_cloud_connection (lines 109-181) runs with what the HTTP client
\* does in this call
ValidateCall ==
    /\ v_pc = "called"
    /\ \E http \in ValHttpOutcomes :
         /\ v_http' = http
         /\ v_sent' = IF validation_sends_request(v_url, http) THEN v_sent + 1 ELSE v_sent
         /\ v_result' = validate_cloud_connection(v_url, v_token, http)
    /\ v_pc' = "returned"
    /\ UNCHANGED <<initVars, stateVars, lock_db, last, cmdVars, v_url, v_token, dataVars>>

ValNext == ValidateCall

ValSpec == ValInit /\ [][ValNext]_vars

----------------------------------------------------------------------------
(* The commands that change rows: delete_category and migrate_from_legacy  *)

\* has_legacy_db (lines 509-512)
has_legacy_db == fs_legacy # "none"

\* the text of line 519 (no backup of the old data was found)
NoBackupMessage == <<"no legacy backup file found">>

\* the texts of lines 524 and 526 (the old database cannot be opened)
CannotOpenLegacyMessage == <<"cannot open the legacy database">>

\* the error of a statement that failed (e.to_string())
SqlErrorMessage == <<"sql error">>

\* lines 624-627: the summary names the categories, the transactions and
\* the installments copied
migrate_summary(counts) ==
    <<"migration finished", counts["categories"], counts["transactions"],
      counts["installments"]>>

\* variant: the backup is looked for only after the import
migrate_checks_backup_never(present) == TRUE

\* lines 518-520: the import goes on when the .legacy file exists
migrate_checks_backup(present) == present

\* the command migrate_from_legacy (lib.rs lines 231-237) with
\* db::migrate_from_legacy (db.rs lines 515-631)
MigrateFromLegacy ==
    /\ IF ~get_connection.ok
         THEN /\ last' = Returned_call("migrate_from_legacy", FALSE,
                                       <<get_connection.value>>, FALSE)
              /\ UNCHANGED <<tables, remote_tables>>
         ELSE IF ~migrate_checks_backup(has_legacy_db)
         THEN /\ last' = Returned_call("migrate_from_legacy", FALSE, NoBackupMessage, FALSE)
              /\ UNCHANGED <<tables, remote_tables>>
         ELSE \E opened \in BOOLEAN, fault \in ImportFaults :
                IF ~opened
                  THEN /\ last' = Returned_call("migrate_from_legacy", FALSE,
                                                CannotOpenLegacyMessage, FALSE)
                       /\ UNCHANGED <<tables, remote_tables>>
                  ELSE LET p == import(tables, legacy_tables, fault) IN
                       /\ tables' = p.d
                       /\ remote_tables' = remote_after_write(conn[1], p.d)
                       /\ last' = IF p.failed
                                    THEN Returned_call("migrate_from_legacy", FALSE,
                                                       SqlErrorMessage, FALSE)
                                    ELSE Returned_call("migrate_from_legacy", TRUE,
                                                       migrate_summary(p.counts), FALSE)
    /\ UNCHANGED <<initVars, stateVars, lock_db, cmdVars, valVars, legacy_tables, sql_faults>>

\* the command delete_category (lib.rs lines 55-61): the user deletes the
\* category with the smallest id
DeleteCategory ==
    /\ room_for_defaults(tables)
    /\ IF ~get_connection.ok
         THEN /\ last' = Returned_call("delete_category", FALSE,
                                       <<get_connection.value>>, FALSE)
              /\ UNCHANGED <<tables, remote_tables>>
         ELSE /\ tables' = IF tables.categories = {} THEN tables
                           ELSE delete_category(tables, first_row(tables.categories).id)
              /\ remote_tables' = remote_after_write(conn[1], tables')
              /\ last' = Returned_call("delete_category", TRUE, <<>>, FALSE)
    /\ UNCHANGED <<initVars, stateVars, lock_db, cmdVars, valVars, legacy_tables, sql_faults>>

\* the faults of these sessions: run_migrations can fail at the COUNT(*)
\* query, after three default categories and at the first index, and the
\* fetch of line 384 can fail
DataFaults ==
    [fatal |-> {Fault("count", 0), Fault("seed", 3), Fault("idx_transactions_date", 0)},
     count_read |-> TRUE]

\* a database in use: the defaults, a transaction, an installment plan and
\* one of its details
BusyDb ==
    [SeededDb EXCEPT
        !.transactions = {[id |-> 1, category_id |-> 1, data |-> "current"]},
        !.installments = {[id |-> 1, category_id |-> 2, data |-> "current"]},
        !.details = {[id |-> 1, installment_id |-> 1, data |-> "current"]}]

\* an older database: the defaults with one more category, and rows whose
\* ids are partly those of BusyDb
OldDb ==
    [SeededDb EXCEPT
        !.categories = @ \cup {[id |-> 7, name |-> "pets"]},
        !.seq = 7,
        !.transactions = {[id |-> 1, category_id |-> 1, data |-> "old"],
                          [id |-> 2, category_id |-> 7, data |-> "old"]},
        !.installments = {[id |-> 2, category_id |-> 1, data |-> "old"]},
        !.details = {[id |-> 1, installment_id |-> 2, data |-> "old"]}]

\* a local-only installation: no sync_config.json, with or without a
\* database of an earlier session and a .legacy file
DataInit0 ==
    /\ EnvInit(ConfigEngineFailures)
    /\ ValIdle
    /\ cfg_file = [kind |-> "missing", url |-> EmptyString, token |-> EmptyString]
    /\ fs_wal = "none" /\ fs_shm = "none" /\ fs_sync_dir = "none"
    /\ DataInit(DataFaults, {EmptyDb}, {SeededDb, BusyDb}, {EmptyDb, OldDb})

DataNext ==
    \/ SpawnInit
    \/ LoadConfig
    \/ LocalOpen
    \/ EnableForeignKeys
    \/ RunMigrations
    \/ PublishDb
    \/ PublishConn
    \/ PublishSyncEnabled
    \/ PublishSyncUrl
    \/ Restart
    \/ DeleteCategory
    \/ MigrateFromLegacy

\* sessions of a local-only installation in which the user deletes
\* categories and imports the .legacy file
DataSpec == DataInit0 /\ [][DataNext]_vars

\* the primary of another installation, whose user deleted the default
\* category "other"
SharedDb == delete_category(OldDb, 6)

\* a first start without sync_config.json, against a primary that is new
\* or that another installation has filled
SetupInit ==
    /\ EnvInit(ConfigEngineFailures)
    /\ ValIdle
    /\ DataInit(FirstStatementFaults, {EmptyDb, SharedDb}, {SeededDb}, {SeededDb})
    /\ cfg_file = [kind |-> "missing", url |-> EmptyString, token |-> EmptyString]
    /\ fs_db = "none" /\ fs_wal = "none" /\ fs_shm = "none"
    /\ fs_sync_dir = "none" /\ fs_legacy = "none"

\* sessions in which the user sets cloud sync up for the first time
SetupSpec == SetupInit /\ [][ConfigNext]_vars

----------------------------------------------------------------------------
(* Properties                                                              *)

Returned == pc = "returned"

ReturnedOk == pc = "returned" /\ result = "Ok"

\* the errors init_db returns: all come from opening, preparing or
\* migrating the chosen database, none from the sync configuration
OpenOrSchemaErrors ==
    {"Failed to build local db", "Failed to connect",
     "Failed to enable foreign keys", "migration failed"}

FsOps == {"rm_legacy", "rename", "rm_db", "rm_wal", "rm_shm", "rm_sync_dir"}

NetOps == {"http_post", "synced_build", "eager_sync"}

NoFsOp == \A i \in 1..Len(hist) : hist[i].op \notin FsOps

NoNetOp == \A i \in 1..Len(hist) : hist[i].op \notin NetOps

\* the handle published by the run is local-only, sync is reported disabled
PublishedLocalOnly ==
    /\ db = Some("local")
    /\ conn = Some("local")
    /\ ~is_cloud_sync_enabled
    /\ get_sync_url = EmptyString

\* C1: after init_db returned Ok, is_cloud_sync_enabled() is true only if
\* the handle stored in ConnectionState comes from a successful synced
\* build, and it is false whenever the stored handle is local-only.
C1_SyncFlagOnlyForSyncedHandle ==
    ReturnedOk =>
        /\ is_cloud_sync_enabled => db = Some("synced")
        /\ db = Some("local") => ~is_cloud_sync_enabled

\* sync_config.json is missing or is not a SyncConfig in JSON
NoUsableConfigFile == cfg_file.kind \in {"missing", "garbage"}

\* init_db has renamed or deleted nothing: every file of the start is in place
FilesInPlace ==
    /\ NoFsOp
    /\ fs_db = fs0.db \/ (fs0.db = "none" /\ fs_db = "fresh")
    /\ fs_wal = fs0.wal
    /\ fs_shm = fs0.shm
    /\ fs_sync_dir = fs0.sync_dir
    /\ fs_legacy = fs0.legacy

\* the run failed in the local open, the foreign-key pragma or the
\* migration: it returned that error and published nothing
FailedInOpenOrSchema ==
    /\ result \in OpenOrSchemaErrors
    /\ Failed("local_open") \/ Failed("foreign_keys") \/ Failed("migrate")
    /\ DbState_new

FinishingPcs ==
    {"enable_fk", "migrate", "publish_db", "publish_conn", "publish_enabled",
     "publish_url", "returned"}

\* the config file parses and its url or its token is the empty string
EmptyFieldConfig ==
    /\ cfg_file.kind = "json"
    /\ cfg_file.url = EmptyString \/ cfg_file.token = EmptyString

\* C3: with an empty url or an empty token in the loaded config, init_db
\* goes to the local open and, in the whole run, never calls
\* validate_cloud_connection, never attempts a synced build and makes no
\* network call.
C3_EmptyFieldNoValidation ==
    EmptyFieldConfig =>
        /\ ~Did("validate")
        /\ ~Did("synced_build")
        /\ NoNetOp
        /\ l_db \in {None, Some("local")}
        /\ pc \notin {"idle", "load_config"} =>
             pc \in {"local_open_empty_field"} \cup FinishingPcs
        /\ pc \in FinishingPcs => Count("local_open") = 1

\* C3 witness: url set, token empty, the run has finished on the local file
C3_Witness ==
    /\ cfg_file.kind = "json"
    /\ cfg_file.url # EmptyString
    /\ cfg_file.token = EmptyString
    /\ ReturnedOk
    /\ PublishedLocalOnly

\* C4 as stated: when validate_cloud_connection fails, the run validates
\* exactly once, never attempts a synced build, never enters recovery and
\* ends with a local-only handle.
C4_ValidationFailureEndsLocal ==
    (Failed("validate") /\ Returned) =>
        /\ Count("validate") = 1
        /\ ~Did("synced_build")
        /\ NoFsOp
        /\ PublishedLocalOnly

\* C4 (amended): when validate_cloud_connection fails for any reason, the
\* run validates exactly once, never attempts a synced build, never enters
\* recovery and goes straight to the local open; it ends with the local-only
\* handle published unless the local open, the foreign-key pragma or the
\* migration fails, in which case it returns that error and publishes
\* nothing.
C4_ValidationFailureLocalOnly ==
    Failed("validate") =>
        /\ Count("validate") = 1
        /\ Count("http_post") <= 1
        /\ ~Did("synced_build")
        /\ NoFsOp
        /\ l_db \in {None, Some("local")}
        /\ pc \in {"local_open_invalid"} \cup FinishingPcs
        /\ pc \in FinishingPcs => Count("local_open") = 1
        /\ Returned =>
             \/ result = "Ok" /\ PublishedLocalOnly
             \/ FailedInOpenOrSchema

\* C4 witness: the endpoint rejected the token, the run has finished with
\* the local-only handle published
C4_Witness ==
    /\ \E i \in 1..Len(hist) :
         /\ hist[i].op = "validate"
         /\ hist[i].arg = "Authentication failed (Invalid Token)"
    /\ ReturnedOk
    /\ PublishedLocalOnly

\* the first synced build failed with a message containing
\* "Generation ID mismatch"
GenerationMismatch == Contains(err, <<"Generation", "ID", "mismatch">>)

\* the quarantine and cleanup of lines 259-285 are behind the run
RecoveryDone == pc \in {"build2", "local_open_retry_failed"} \cup FinishingPcs

\* C5 as stated: after recovery from a "Generation ID mismatch" failure a
\* .legacy file exists, the original -wal and -shm files are gone and the
\* main path no longer holds the original file, whatever the outcome of the
\* individual rename/delete operations.
C5_RecoveryAlwaysQuarantines ==
    (GenerationMismatch /\ RecoveryDone /\ fs0.db = "orig") =>
        /\ fs_legacy # "none"
        /\ fs_wal = "none"
        /\ fs_shm = "none"
        /\ fs_db # "orig"

\* C5 (amended): after recovery from a "Generation ID mismatch" failure the
\* rename, the -wal delete and the -shm delete have each been issued once
\* and their effects are best effort: a successful rename leaves the
\* original file as the only .legacy file (it replaces an earlier backup);
\* when the rename or the fallback delete succeeded the main path no longer
\* holds the original file and the database opened there afterwards is
\* fresh; each side file is gone exactly when its delete succeeded.  A
\* failed rename leaves no .legacy file or only the earlier one, a failed
\* rename followed by a failed delete leaves the original file at the main
\* path, and a failed side-file delete leaves that side file.
C5_RecoveryBestEffort ==
    (GenerationMismatch /\ RecoveryDone) =>
        /\ Count("rename") = 1
        /\ Count("rm_wal") = 1
        /\ Count("rm_shm") = 1
        /\ Succeeded("rename") => (fs_legacy = fs0.db /\ ~Did("rm_db"))
        /\ Failed("rename") =>
             /\ Count("rm_db") = 1
             /\ fs_legacy = (IF Succeeded("rm_legacy") THEN "none" ELSE fs0.legacy)
        /\ (Succeeded("rename") \/ Succeeded("rm_db")) =>
             /\ fs_db \in {"none", "fresh"}
             /\ l_db # None => fs_db = "fresh"
        /\ (fs0.db = "orig" /\ Failed("rename") /\ Failed("rm_db")) => fs_db = "orig"
        /\ fs_wal = (IF Succeeded("rm_wal") THEN "none" ELSE fs0.wal)
        /\ fs_shm = (IF Succeeded("rm_shm") THEN "none" ELSE fs0.shm)

\* C5 witness: an earlier backup existed, its removal failed, the rename
\* replaced it with the original file, the side files were deleted and the
\* retry connected to a fresh database
C5_Witness ==
    /\ GenerationMismatch
    /\ fs0.legacy = "old"
    /\ Failed("rm_legacy")
    /\ fs0.wal = "orig"
    /\ fs0.shm = "orig"
    /\ ReturnedOk
    /\ fs_legacy = "orig"
    /\ fs_wal = "none"
    /\ fs_shm = "none"
    /\ fs_db = "fresh"
    /\ db = Some("synced")

\* the first synced build failed and its message matches none of the
\* recoverable substrings
NonRecoverableFailure == err # <<>> /\ ~should_recover(err)

\* the local opens the run has performed were all issued at the given place
LocalOpenOnlyAt(at) ==
    \A i \in 1..Len(hist) : hist[i].op = "local_open" => hist[i].arg = at

\* C6: after a first synced-build failure whose message matches none of the
\* recoverable substrings, init_db has renamed or deleted nothing (database
\* file, -wal/-shm, sync-metadata directory and .legacy file are in place)
\* and falls back to a local open of the same path.
C6_NonRecoverableLeavesFiles ==
    NonRecoverableFailure =>
        /\ FilesInPlace
        /\ fs0.db = "orig" => fs_db = "orig"
        /\ Count("synced_build") = 1
        /\ pc \in {"local_open_non_recoverable"} \cup FinishingPcs
        /\ pc \in FinishingPcs => Count("local_open") = 1
        /\ LocalOpenOnlyAt("local_open_non_recoverable")
        /\ l_db \in {None, Some("local")}
        /\ db \in {None, Some("local")}

\* C6 witness: "connection refused" on the first build, every kind of file
\* present at the start and still there after the run returned on the
\* local handle
C6_Witness ==
    /\ err = <<"Build", "failed:", "connection", "refused">>
    /\ fs0 = [db |-> "orig", wal |-> "orig", shm |-> "orig",
              sync_dir |-> "dir", legacy |-> "old"]
    /\ ReturnedOk
    /\ db = Some("local")
    /\ fs_db = "orig"
    /\ fs_legacy = "old"

\* the cleanup calls that init_db always issues in the recovery branch
CleanupOps == {"rename", "rm_wal", "rm_shm"}

\* the retry has been made and has failed
RetryFailed == Count("synced_build") = 2 /\ retry_err # <<>>

\* C7: in one run the synced build is attempted at most twice; the second
\* attempt comes only after a recoverable classification of the first
\* failure and after the quarantine/cleanup calls; a failed second attempt
\* leads to the local open, with no further recovery or retry, whatever its
\* message.
C7_AtMostOneRetry ==
    /\ Count("synced_build") <= 2
    /\ Count("synced_build") = 2 =>
         /\ should_recover(err)
         /\ \A op \in CleanupOps : Count(op) = 1
         /\ \A i \in 1..Len(hist) :
              hist[i].op \in CleanupOps =>
                /\ \E j \in 1..(i - 1) : hist[j].op = "synced_build"
                /\ \E j \in (i + 1)..Len(hist) : hist[j].op = "synced_build"
    /\ retry_err # <<>> =>
         /\ Count("synced_build") = 2
         /\ pc \in {"local_open_retry_failed"} \cup FinishingPcs
         /\ pc \in FinishingPcs => Count("local_open") = 1
         /\ LocalOpenOnlyAt("local_open_retry_failed")
         /\ l_db \in {None, Some("local")}

\* C7 witness: the retry failed with a message that is itself recoverable,
\* and the run has finished on the local handle
C7_Witness ==
    /\ RetryFailed
    /\ should_recover(retry_err)
    /\ ReturnedOk
    /\ db = Some("local")
    /\ Count("rename") = 1

SchemaErrors == {"Failed to enable foreign keys", "migration failed"}

\* C9: when enabling foreign keys or run_migrations fails, init_db returns
\* an error and ConnectionState is as DbState::new created it: no database
\* handle, no connection, sync disabled, empty sync url.
C9_SchemaFailureLeavesStateEmpty ==
    (Failed("foreign_keys") \/ Failed("migrate")) =>
        /\ Returned
        /\ result \in SchemaErrors
        /\ db = None
        /\ conn = None
        /\ ~is_cloud_sync_enabled
        /\ get_sync_url = EmptyString

\* C9 witness: the pragma failed on a synced connection whose local tuple
\* already said "cloud sync", the run returned the error
C9_Witness ==
    /\ Len(hist) > 0
    /\ hist[Len(hist)] = Call("foreign_keys", FALSE, "synced")
    /\ is_cloud_sync
    /\ Returned
    /\ result = "Failed to enable foreign keys"
    /\ DbState_new

\* C10 as stated: a migration failure on a cloud-synced connection makes
\* the initializer fall back to local-only; initialization is aborted only
\* when the migration fails on a local-only connection.
C10_CloudMigrationFailureFallsBack ==
    (Returned /\ result = "migration failed") =>
        \A i \in 1..Len(hist) :
            (hist[i].op = "migrate" /\ ~hist[i].ok) => hist[i].arg = "local"

\* C10 (amended): a migration failure aborts the initialization on a
\* cloud-synced connection exactly as on a local-only one: init_db returns
\* the error at once, opens no local fallback and stores no handle.
C10_MigrationFailureAborts ==
    \A i \in 1..Len(hist) :
        (hist[i].op = "migrate" /\ ~hist[i].ok) =>
            /\ i = Len(hist)
            /\ Returned
            /\ result = "migration failed"
            /\ db = None
            /\ conn = None

\* C10 witness: the migration failed on a synced connection and the run
\* returned the error
C10_Witness ==
    /\ Len(hist) > 0
    /\ hist[Len(hist)] = Call("migrate", FALSE, "synced")
    /\ Returned
    /\ result = "migration failed"
    /\ ~get_connection.ok

\* init_db has executed line 342 in this run
ConnStored == pc \in {"publish_enabled", "publish_url"} \/ (pc = "returned" /\ result = "Ok")

\* the one error of get_connection
NotInitialized == [ok |-> FALSE, value |-> "Database not initialized"]

Slots == [db |-> db, conn |-> conn]

\* C12: close leaves both the handle and the connection absent; a second
\* close (or a close of the empty initial state) changes nothing and returns
\* Ok; right after a close get_connection returns the not-initialized error
\* and sync returns its no-database error without reaching the engine.
C12_CloseClearsBothSlots ==
    [][ /\ CloseFinish =>
            /\ db' = None /\ conn' = None
            /\ last' = Returned_call("close", TRUE, <<>>, FALSE)
            /\ close(Slots') = Slots'
            /\ (Slots = close(Slots) => UNCHANGED stateVars)
            /\ get_connection' = NotInitialized
            /\ ~sync_reaches_engine(db')
        /\ (SyncLock /\ ~sync_reaches_engine(db)) =>
            /\ last' = Returned_call("sync", FALSE, NoDatabaseMessage, FALSE)
            /\ lock_db' = "free"
      ]_vars

\* close has returned after init_db had published a handle and a connection
C12_Witness ==
    /\ pc = "returned" /\ result = "Ok"
    /\ last.op = "close"
    /\ db = None /\ conn = None
    /\ lock_db = "free"

\* a returned sync that did not reach the engine
SyncWithoutEngine == Returned_call("sync", FALSE, NoDatabaseMessage, FALSE)

\* the value is the generic sync failure: the prefix and then the message
IsSyncFailure(value) == Len(value) >= 2 /\ SubSeq(value, 1, 1) = SyncFailedPrefix

\* C13: sync reaches Database::sync exactly when the db slot holds a handle
\* and otherwise returns the no-database error without an engine call; an
\* engine error that says sync is not supported (File mode) comes back as
\* the sync-not-enabled error, every other engine error as the generic sync
\* failure, and the three errors differ from each other.
C13_SyncErrors ==
    /\ [](/\ lock_db = "sync" => db # None
          /\ (last.op = "sync" /\ ~last.engine) => last = SyncWithoutEngine
          /\ (last.op = "sync" /\ last.engine /\ ~last.ok) =>
                 /\ last.value = SyncNotEnabledMessage \/ IsSyncFailure(last.value)
                 /\ last.value # NoDatabaseMessage
          /\ SyncNotEnabledMessage # NoDatabaseMessage
          /\ ~IsSyncFailure(SyncNotEnabledMessage)
          /\ ~IsSyncFailure(NoDatabaseMessage))
    /\ [][ /\ SyncLock => /\ lock_db' = "sync" <=> db # None
                          /\ db = None => last' = SyncWithoutEngine
           /\ SyncReturn =>
                /\ last'.engine
                /\ db = Some("local") => last'.value = SyncNotEnabledMessage
                /\ \A out \in db_sync_outcomes("synced") :
                     (~out.ok /\ last'.value = SyncFailedPrefix \o out.e) =>
                        (~Contains(out.e, <<"File", "mode">>)
                         /\ ~Contains(out.e, <<"not", "supported">>))
         ]_vars

\* sync on the local-only handle has returned the sync-not-enabled error
C13_Witness ==
    /\ db = Some("local")
    /\ last = Returned_call("sync", FALSE, SyncNotEnabledMessage, TRUE)

\* sync on a synced handle has returned the generic sync failure
C13_WitnessGeneric ==
    /\ db = Some("synced")
    /\ last.op = "sync" /\ IsSyncFailure(last.value)

\* a step in which configure_sync returns
ConfigureReturns == ConfigureSyncValidated \/ (ConfigureSyncCall /\ c_pc' = "idle")

\* C14: when configure_sync is called with both fields and the validation
\* fails, the command returns the validation error and sync_config.json
\* stays as it was; the file changes only in a call whose validation said Ok
\* or that skipped the validation because a field is empty.
C14_ValidationGuardsWrite ==
    [][ /\ (ConfigureSyncValidated /\ last'.value[1] # "Ok") =>
              /\ cfg_file' = cfg_file
              /\ last' = configure_result(FALSE, last'.value[1], "validation failed")
        /\ (ConfigureSyncCall /\ c_pc' = "validating") =>
              /\ cfg_file' = cfg_file
              /\ ~is_empty(c_url') /\ ~is_empty(c_token')
        /\ cfg_file' # cfg_file =>
              /\ ConfigureReturns
              /\ \/ c_pc = "validating" /\ last'.value[1] = "Ok"
                 \/ /\ c_pc = "idle" /\ last'.value[1] = "not validated"
                    /\ cfg_file'.kind = "json" => use_local_only(cfg_file')
      ]_vars

\* a configuration written earlier is still in the file after a later call
\* whose validation failed
C14_Witness ==
    /\ cfg_file.kind = "json"
    /\ ~use_local_only(cfg_file)
    /\ last.op = "configure_sync"
    /\ ~last.ok
    /\ last.value = <<"Authentication failed (Invalid Token)", "validation failed">>

\* C15: a call of configure_sync, successful or not, leaves the handle, the
\* connection, is_cloud_sync_enabled() and get_sync_url() as they were; they
\* change only in a step of an initialisation run or at a new start; and
\* after a successful configure_sync(url, token) get_sync_config() returns
\* exactly that url and token.
C15_ConfigureLeavesConnectionState ==
    [][ /\ (ConfigureSyncCall \/ ConfigureSyncValidated) =>
              /\ UNCHANGED stateVars
              /\ is_cloud_sync_enabled' = is_cloud_sync_enabled
              /\ get_sync_url' = get_sync_url
              /\ get_connection' = get_connection
        /\ stateVars' # stateVars => pc' # pc
        /\ (ConfigureReturns /\ last'.ok) =>
              /\ configured' # None
              /\ get_sync_config' = configured'
        /\ (ConfigureSyncValidated /\ last'.ok) =>
              get_sync_config' = Some([url |-> c_url, token |-> c_token])
      ]_vars

\* configure_sync has returned Ok while the DbState holds a published
\* local-only handle, and the file holds what was passed
C15_Witness ==
    /\ pc = "returned" /\ result = "Ok"
    /\ db = Some("local") /\ conn = Some("local") /\ ~is_sync_enabled
    /\ last.op = "configure_sync" /\ last.ok
    /\ configured = Some([url |-> <<"libsql://", 1>>, token |-> <<"validtoken">>])
    /\ get_sync_config = configured

\* the url passes the format check of line 113
AcceptedUrl(url) == starts_with(url, "libsql://") \/ starts_with(url, "https://")

FormatError == "URL must start with libsql:// or https://"

\* C18 as claimed: a url with neither prefix gets the format error and no
\* request; an accepted url gets exactly one request.
C18_OneRequestPerAcceptedUrl ==
    v_pc = "returned" =>
        /\ ~AcceptedUrl(v_url) => (v_result = FormatError /\ v_sent = 0)
        /\ AcceptedUrl(v_url) => v_sent = 1

\* C18: a url with neither prefix gets the format error and no request; an
\* accepted url gets exactly one request, except that no request is sent
\* when the HTTP client cannot be built (the error is then "Client build
\* failed").
C18_OneRequestUnlessNoClient ==
    v_pc = "returned" =>
        /\ ~AcceptedUrl(v_url) => (v_result = FormatError /\ v_sent = 0)
        /\ AcceptedUrl(v_url) =>
              /\ v_result # FormatError
              /\ v_http.kind # "client_build_error" => v_sent = 1
              /\ v_http.kind = "client_build_error" =>
                    (v_sent = 0 /\ v_result = "Client build failed")

\* a url with another scheme has been refused without a request
C18_Witness ==
    /\ v_pc = "returned"
    /\ v_url = <<"ftp://", 1>>
    /\ v_http.kind = "response"
    /\ v_result = FormatError
    /\ v_sent = 0

IsSuccess(code) == code >= 200 /\ code <= 299

\* C19: for an accepted url the result is Ok exactly when a response with a
\* 2xx status arrived, the authentication error exactly when the status is
\* 401 or 403, the server error for every other status outside 2xx, and the
\* network error exactly when send() failed; the three errors differ.
C19_ResultByStatus ==
    (v_pc = "returned" /\ AcceptedUrl(v_url)) =>
        /\ v_result = "Ok" <=> (v_http.kind = "response" /\ IsSuccess(v_http.code))
        /\ v_result = "Authentication failed (Invalid Token)"
              <=> (v_http.kind = "response" /\ v_http.code \in {401, 403})
        /\ v_result = "Server returned error"
              <=> (v_http.kind = "response" /\ ~IsSuccess(v_http.code)
                   /\ v_http.code \notin {401, 403})
        /\ v_result = "Connection failed" <=> v_http.kind = "send_error"
        /\ Cardinality({"Authentication failed (Invalid Token)",
                        "Server returned error", "Connection failed"}) = 3

\* a 403 answer to an accepted url has been reported as authentication error
C19_Witness ==
    /\ v_pc = "returned"
    /\ v_url = <<"libsql://", 1>>
    /\ v_http = [kind |-> "response", code |-> 403]
    /\ v_result = "Authentication failed (Invalid Token)"

\* the names of the rows of categories, each with the number of its rows
names_of(d) ==
    [n \in {r.name : r \in d.categories} |->
        Cardinality({r \in d.categories : r.name = n})]

\* categories holds the six defaults, each once, and nothing else
HoldsDefaultsOnce(d) ==
    names_of(d) = [n \in {DefaultCategories[i] : i \in 1..Len(DefaultCategories)} |-> 1]

\* a step in which run_migrations returns Ok
MigrationSucceeds == RunMigrations /\ pc' = "publish_db"

\* C17: a run of run_migrations that returns Ok seeds the six defaults
\* exactly when the categories table is empty when it runs and otherwise
\* leaves the rows of categories as they are; a second run right after it
\* changes neither the schema nor the categories; and a run on a table from
\* which the user deleted every row leaves exactly the six defaults.
C17_SeedsExactlyWhenEmpty ==
    [][ MigrationSucceeds =>
          /\ tables.categories = {} => HoldsDefaultsOnce(tables')
          /\ tables.categories # {} => tables'.categories = tables.categories
          /\ \A out \in MigrationOutcomes' :
                run_migrations_ok(tables', out.count_read, out.fault) =>
                   LET again == run_migrations(tables', out.count_read, out.fault)
                   IN  again.schema = tables'.schema
                       /\ again.categories = tables'.categories
      ]_vars

\* a step of the command migrate_from_legacy while no .legacy file exists
MigratesWithoutBackup == MigrateFromLegacy /\ fs_legacy = "none"

\* C20 as claimed: whenever the .legacy file does not exist the command
\* returns the no-backup error and changes no row; has_legacy_db() is true
\* exactly when the file exists.
C20_NoBackupError ==
    /\ [](has_legacy_db <=> fs_legacy \in {"old", "orig"})
    /\ [][ MigratesWithoutBackup =>
             /\ last' = Returned_call("migrate_from_legacy", FALSE, NoBackupMessage, FALSE)
             /\ tables' = tables
         ]_vars

\* C20: whenever the .legacy file does not exist the command changes no row
\* and returns an error: the no-backup error when DbState holds a
\* connection, and "Database not initialized" when it holds none;
\* has_legacy_db() is true exactly when the file exists.
C20_NoBackupNoChange ==
    /\ [](has_legacy_db <=> fs_legacy \in {"old", "orig"})
    /\ [][ MigratesWithoutBackup =>
             /\ tables' = tables
             /\ remote_tables' = remote_tables
             /\ legacy_tables' = legacy_tables
             /\ last'.op = "migrate_from_legacy" /\ ~last'.ok
             /\ conn # None => last'.value = NoBackupMessage
             /\ conn = None => last'.value = <<"Database not initialized">>
         ]_vars

\* the command has returned the no-backup error on a database in use
C20_Witness ==
    /\ fs_legacy = "none"
    /\ conn = Some("local")
    /\ tables = BusyDb
    /\ last = Returned_call("migrate_from_legacy", FALSE, NoBackupMessage, FALSE)

\* init_db has loaded the configuration that the last successful
\* configure_sync wrote, with both fields non-empty
LoadedConfigured ==
    /\ configured # None /\ conf # None
    /\ configured[1].url # EmptyString /\ configured[1].token # EmptyString
    /\ conf[1] = configured[1]

\* an initialization after configure_sync in which the validation and a
\* synced build succeeded
SetupSucceeded ==
    LoadedConfigured /\ Succeeded("validate") /\ Succeeded("eager_sync")

\* C16 as claimed: starting with no sync_config.json, after a successful
\* configure_sync(url, token) with both fields non-empty and an
\* initialization in which validation and the synced build succeed, the
\* flag is true, the url is the configured one and categories holds the six
\* defaults exactly once.
C16_SetupEndsSeeded ==
    (Returned /\ SetupSucceeded) =>
        /\ is_sync_enabled
        /\ sync_url = configured[1].url
        /\ \A i \in 1..Len(DefaultCategories) :
              Cardinality({r \in tables.categories : r.name = DefaultCategories[i]}) = 1

\* C16: the same, when init_db returns Ok: the flag is true and the url is
\* the configured one; categories holds the six defaults exactly once when
\* the replica held no category as run_migrations ran, and keeps every row
\* it held otherwise.
C16_SetupPublishesAndSeeds ==
    /\ []((ReturnedOk /\ SetupSucceeded) =>
            /\ is_sync_enabled
            /\ sync_url = configured[1].url
            /\ tables = remote_tables)
    /\ [][ (MigrationSucceeds /\ SetupSucceeded) =>
             /\ tables.categories = {} => HoldsDefaultsOnce(tables')
             /\ tables.categories # {} => tables.categories \subseteq tables'.categories
         ]_vars

\* a first setup has returned Ok with the flag set, the configured url and
\* the six defaults seeded once into a primary that was new
C16_Witness ==
    /\ ReturnedOk /\ SetupSucceeded
    /\ is_sync_enabled /\ sync_url = configured[1].url
    /\ HoldsDefaultsOnce(tables)
    /\ Succeeded("migrate")

\* a step of migrate_from_legacy that returns Ok right after a run of it
\* that returned Ok
MigratesAgain ==
    /\ MigrateFromLegacy
    /\ last.op = "migrate_from_legacy" /\ last.ok
    /\ last'.ok

\* C21: of two runs of migrate_from_legacy against the same .legacy file
\* that both return Ok, the second leaves every one of the four destination
\* tables with the rows the first left, no primary key twice.
C21_SecondImportChangesNothing ==
    [][ MigratesAgain =>
          /\ \A i \in 1..Len(ImportedTables) :
                rows_of(tables', ImportedTables[i]) = rows_of(tables, ImportedTables[i])
          /\ \A i \in 1..Len(ImportedTables) :
                \A r, s \in rows_of(tables', ImportedTables[i]) : r.id = s.id => r = s
      ]_vars

\* a step in which migrate_from_legacy returns Ok
MigrationFromLegacySucceeds == MigrateFromLegacy /\ last'.ok

\* C22: a migrate_from_legacy that returns Ok returns a summary that gives,
\* for categories, transactions, installments and installment details, the
\* number of rows copied, which is the number of rows of that table in the
\* .legacy file, and it leaves the .legacy file in place.
C22_SummaryCountsLegacyRows ==
    [][ MigrationFromLegacySucceeds =>
          /\ last'.value = <<"migration finished",
                             Cardinality(legacy_tables.categories),
                             Cardinality(legacy_tables.transactions),
                             Cardinality(legacy_tables.installments),
                             Cardinality(legacy_tables.details)>>
          /\ fs_legacy' = fs_legacy
          /\ legacy_tables' = legacy_tables
      ]_vars

\* the rows of a table of d whose primary key is not in the .legacy file
not_in_legacy(d, table) ==
    {r \in rows_of(d, table) : \A x \in rows_of(legacy_tables, table) : x.id # r.id}

\* C30: migrate_from_legacy changes no destination row whose primary key
\* does not occur in the .legacy file: every such row of the four tables is
\* in the current database after the call as it was before it.
C30_KeepsRowsNotInLegacy ==
    [][ MigrateFromLegacy =>
          \A i \in 1..Len(ImportedTables) :
             not_in_legacy(tables, ImportedTables[i])
                \subseteq rows_of(tables', ImportedTables[i])
      ]_vars

\* the cleanup of the recovery branch (lines 259-286) is over
AfterCleanup ==
    Did("rename") /\ pc \notin {"rm_db", "rm_wal", "rm_shm", "rm_sync_dir"}

Before(op1, op2) ==
    \A j \in 1..Len(hist) :
        hist[j].op = op2 => \A i \in j..Len(hist) : hist[i].op # op1

\* the order of lines 260-268: the old .legacy file is removed, if there is
\* one, before the rename, and the database file is removed exactly when
\* the rename failed, after it
QuarantineOrder ==
    /\ Before("rm_legacy", "rename")
    /\ Before("rename", "rm_db")
    /\ (Did("rename") /\ fs0.legacy # "none") => Did("rm_legacy")
    /\ Did("rm_db") => Failed("rename")
    /\ (Failed("rename") /\ pc # "rm_db") => Did("rm_db")
    /\ Succeeded("rename") => fs_legacy = "orig"

\* C27 as claimed: a pre-existing .legacy file is deleted before the rename,
\* the database file is deleted when the rename fails, and in either case
\* the conflicting file is no longer at the main path when the retry starts.
C27_ConflictingFileGone ==
    /\ QuarantineOrder
    /\ pc = "build2" => fs_db = "none"

\* C27: the same order of calls; when the retry starts the conflicting file
\* is no longer at the main path if the rename or the delete succeeded, and
\* is still there if both failed.
C27_GoneUnlessBothFail ==
    /\ QuarantineOrder
    /\ pc = "build2" =>
         /\ (Succeeded("rename") \/ Succeeded("rm_db")) => fs_db = "none"
         /\ (Failed("rename") /\ Failed("rm_db")) => fs_db = fs0.db

\* the retry starts after the rename failed and the delete removed the file
C27_Witness ==
    /\ pc = "build2"
    /\ fs0.db = "orig" /\ fs0.legacy = "old"
    /\ Succeeded("rm_legacy") /\ Failed("rename") /\ Succeeded("rm_db")
    /\ fs_db = "none" /\ fs_legacy = "none"

\* the run is in the recovery branch: the first try_build_connect failed
\* with a message that should_recover accepts
InRecovery == err # <<>> /\ should_recover(err)

\* the calls a step adds to the log
NewCalls == {hist'[k] : k \in (Len(hist) + 1)..Len(hist')}

\* no file has been renamed or removed since the run began (an open may
\* have created the database file)
FilesAsAtStart ==
    /\ fs_db = file_after_open(fs0.db) \/ fs_db = fs0.db
    /\ fs_wal = fs0.wal /\ fs_shm = fs0.shm
    /\ fs_sync_dir = fs0.sync_dir /\ fs_legacy = fs0.legacy

\* C24: init_db renames or deletes files only in the recovery branch, on
\* every other path the database file, its side files, the sync directory
\* and the .legacy file stay; network calls are made only by the validation
\* and by the synced build and sync attempts of a configuration with both
\* fields non-empty, never by a local open.
C24_FileAndNetworkFrame ==
    /\ []((pc # "idle" /\ ~InRecovery) => (NoFsOp /\ FilesAsAtStart))
    /\ [][ /\ (\E c \in NewCalls : c.op \in FsOps) =>
                (InRecovery /\ pc \in {"rm_legacy", "rename", "rm_db", "rm_wal",
                                       "rm_shm", "rm_sync_dir"})
           /\ (\E c \in NewCalls : c.op \in NetOps) =>
                /\ pc \in {"validate", "build1", "build2"}
                /\ conf # None /\ ~use_local_only(conf[1])
           /\ (pc \in {"build1", "build2"} /\ hist' # hist) => Succeeded("validate")
           /\ pc \in LocalOpenPcs =>
                (\A c \in NewCalls : c.op = "local_open")
                /\ fs_wal' = fs_wal /\ fs_shm' = fs_shm
                /\ fs_sync_dir' = fs_sync_dir /\ fs_legacy' = fs_legacy
                /\ fs_db' \in {fs_db, file_after_open(fs_db)}
         ]_vars

\* a run has returned after a failure that is not recoverable and a local
\* fallback, with the network used and every file where it was
C24_Witness ==
    /\ Returned /\ result = "Ok"
    /\ Failed("eager_sync") /\ ~InRecovery
    /\ Succeeded("local_open")
    /\ fs0.db = "orig" /\ fs0.wal = "orig" /\ fs0.legacy = "old"
    /\ NoFsOp /\ FilesAsAtStart

\* something has been written to DbState
StateWritten ==
    db # None \/ conn # None \/ is_sync_enabled \/ sync_url # EmptyString

\* C25: within one init_db run the configuration is loaded first, a synced
\* build is attempted only after the validation succeeded, the engine is
\* connected and eagerly synced before the foreign-key pragma and the
\* migration run, and DbState is written only after the migration
\* succeeded.
C25_StepsInOrder ==
    /\ Before("load_config", "validate")
    /\ Before("validate", "synced_build")
    /\ Did("synced_build") => Succeeded("validate")
    /\ Did("eager_sync") => Succeeded("synced_build") /\ Succeeded("synced_connect")
    /\ Count("synced_build") <= 2
    /\ Before("synced_build", "foreign_keys")
    /\ Before("eager_sync", "foreign_keys")
    /\ Before("eager_sync", "migrate")
    /\ Before("local_open", "foreign_keys")
    /\ Before("foreign_keys", "migrate")
    /\ Did("migrate") => Succeeded("foreign_keys")
    /\ Count("load_config") <= 1 /\ Count("validate") <= 1 /\ Count("migrate") <= 1
    /\ StateWritten => Succeeded("migrate")
    /\ pc \in {"publish_db", "publish_conn", "publish_enabled", "publish_url"}
          => Succeeded("migrate")

\* a run has gone through every step: validation, synced build, eager
\* sync, pragma, migration, and has published the synced connection
C25_Witness ==
    /\ ReturnedOk
    /\ Succeeded("validate") /\ Succeeded("eager_sync")
    /\ Succeeded("foreign_keys") /\ Succeeded("migrate")
    /\ conn = Some("synced") /\ is_sync_enabled

\* C29: in every state of DbState, under every interleaving of the stores
\* of init_db with close, a stored connection implies a stored database
\* handle; and once init_db has returned and no close is under way the two
\* slots are both filled or both empty.
C29_ConnectionImpliesHandle ==
    /\ conn # None => db # None
    /\ (Returned /\ lock_db # "close") => (db = None <=> conn = None)

\* C26: under every interleaving of the stores of init_db with calls of
\* get_connection, sync, close, is_cloud_sync_enabled and get_sync_url no
\* task waits for a lock whose holder cannot go on, and get_connection,
\* is_cloud_sync_enabled and get_sync_url can always return at once, also
\* while sync holds the db mutex over the remote call.
C26_NoDeadlockReadersNeverWait ==
    /\ ENABLED GetConnection
    /\ ENABLED IsCloudSyncEnabled
    /\ ENABLED GetSyncUrl
    /\ lock_db = "sync" => ENABLED SyncReturn
    /\ lock_db = "close" => ENABLED CloseFinish
    /\ lock_db = "free" => (ENABLED SyncLock /\ ENABLED CloseLockDb)
    /\ (pc = "publish_db" /\ lock_db = "free") => ENABLED PublishDb
    /\ pc = "publish_conn" => ENABLED PublishConn
    /\ pc = "publish_enabled" => ENABLED PublishSyncEnabled
    /\ pc = "publish_url" => ENABLED PublishSyncUrl

\* is_cloud_sync_enabled has returned while a sync holds the db mutex over
\* the remote call and init_db is about to store the connection
C26_Witness ==
    /\ lock_db = "sync"
    /\ pc = "publish_conn"
    /\ last.op = "is_cloud_sync_enabled"

\* C28: whenever get_connection returns Ok, is_cloud_sync_enabled and
\* get_sync_url already return the values init_db stores in this run.
C28_ConnectionAfterSyncConfig ==
    get_connection.ok =>
        /\ is_cloud_sync_enabled = is_cloud_sync
        /\ get_sync_url = l_sync_url

====
